---- MODULE Spec2Model ----
(***************************************************************************)
(* Reservation admission of the multi-tenant reservation system:           *)
(* the createReservation callable (functions/src/index.ts) over the        *)
(* FirestoreService (functions/src/services/firestore.service.ts).         *)
(* Every store operation of an invocation is one atomic step, taken        *)
(* together with the synchronous code that follows it up to the next       *)
(* await.                                                                   *)
(***************************************************************************)
EXTENDS Integers, Sequences, FiniteSets, TLC

\* ------------------------------------------------------------------ bounds
\* Instants are 0..MaxTime.
MaxTime == 2
\* Number of createReservation invocations in a behaviour.
MaxInvocations == 2

\* The concurrent invocations of the callable.
Procs == {"p1", "p2"}

\* ------------------------------------------------------------ JavaScript values
Undefined == [t |-> "undefined"]

Null == [t |-> "null"]

Str(s) == [t |-> "string", s |-> s]

Num(n) == [t |-> "number", n |-> n]

Bool(b) == [t |-> "boolean", b |-> b]

\* An array value; items is a sequence of values.
Arr(items) == [t |-> "array", items |-> items]

\* A plain object; entries is a sequence of <<key, value>> pairs with
\* distinct keys.
Obj(entries) == [t |-> "object", entries |-> entries]

\* A string holding the ISO 8601 rendering of instant n.
Iso(n) == [t |-> "string", s |-> "iso", n |-> n]

\* typeof v
TypeOf(v) == IF v.t \in {"array", "null"} THEN "object" ELSE v.t

\* !!v
Truthy(v) ==
  CASE v.t \in {"undefined", "null"} -> FALSE
    [] v.t = "string" -> v.s # ""
    [] v.t = "number" -> v.n # 0
    [] v.t = "boolean" -> v.b
    [] OTHER -> TRUE

\* String(v): an array renders as its elements joined by ",", a plain
\* object as "[object Object]", a function as its source text.
RECURSIVE StringOf(_)
StringOf(v) ==
  CASE v.t = "string" -> v.s
    [] v.t = "number" -> ToString(v.n)
    [] v.t = "boolean" -> IF v.b THEN "true" ELSE "false"
    [] v.t = "array" ->
         IF v.items = <<>> THEN ""
         ELSE IF Len(v.items) = 1 THEN StringOf(v.items[1])
         ELSE StringOf(v.items[1]) \o "," \o StringOf([v EXCEPT !.items = Tail(v.items)])
    [] v.t = "object" -> "[object Object]"
    [] v.t = "null" -> "null"
    [] v.t = "inherited" -> "function Object() { [native code] }"
    [] OTHER -> "undefined"

\* Own keys of an entries sequence.
Keys(entries) == {entries[i][1] : i \in 1..Len(entries)}

\* Names every plain object inherits from Object.prototype.
ObjectPrototypeKeys == {"constructor", "toString", "hasOwnProperty", "__proto__"}

\* The value of an inherited property: truthy, and without a fields property.
Inherited == [t |-> "inherited"]

\* entries[key] of a plain object given by its entries: the own property, else
\* the property inherited from Object.prototype, else undefined.
PropGet(entries, key) ==
  IF key \in Keys(entries)
    THEN (CHOOSE e \in {entries[i] : i \in 1..Len(entries)} : e[1] = key)[2]
    ELSE IF key \in ObjectPrototypeKeys THEN Inherited ELSE Undefined

\* The own named properties of a value used as a details map: the entries of
\* a plain object, the length of an array.
EntriesOf(v) ==
  CASE v.t = "object" -> v.entries
    [] v.t = "array" -> << <<"length", Num(Len(v.items))>> >>
    [] OTHER -> <<>>

\* Date.getTime() of an unparseable string.
NaN == -1

\* new Date(v).getTime() of a string value: the instant of an ISO string, NaN
\* for any other string.
DateParse(v) == IF v.t = "string" /\ v.s = "iso" THEN v.n ELSE NaN

\* Timestamp.fromDate(d)
TimestampFromDate(d) == [ts |-> d]

\* ------------------------------------------------------- detail validation
\* list.join(", ")
RECURSIVE Join(_)
Join(list) ==
  IF list = <<>> THEN ""
  ELSE IF Len(list) = 1 THEN list[1]
  ELSE list[1] \o ", " \o Join(Tail(list))

\* options.includes(s)
Includes(options, s) == \E i \in 1..Len(options) : options[i] = s

\* The errors of the array branch of the options check, one per offending
\* element, in element order.
RECURSIVE ArrayOptionErrors(_, _)
ArrayOptionErrors(field, items) ==
  IF items = <<>> THEN <<>>
  ELSE (IF ~Includes(field.options, StringOf(items[1]))
          THEN << "Field '" \o field.name \o "' contains invalid option '"
                  \o StringOf(items[1]) \o "'. Allowed: " \o Join(field.options) >>
          ELSE <<>>)
       \o ArrayOptionErrors(field, Tail(items))

\* TypeErrors with min and max as exclusive bounds.
TypeErrorsExclusive(field, value) ==
  CASE field.type = "number" ->
         IF value.t # "number"
           THEN << "Field '" \o field.name \o "' must be a number" >>
           ELSE (IF field.min # Undefined /\ value.n <= field.min.n
                   THEN << "Field '" \o field.name \o "' must be at least "
                           \o ToString(field.min.n) >>
                   ELSE <<>>)
                \o
                (IF field.max # Undefined /\ value.n >= field.max.n
                   THEN << "Field '" \o field.name \o "' must be at most "
                           \o ToString(field.max.n) >>
                   ELSE <<>>)
    [] field.type \in {"string", "boolean", "array"} ->
         IF value.t # field.type
           THEN << "Field '" \o field.name \o "' must be "
                   \o (IF field.type = "array" THEN "an " ELSE "a ") \o field.type >>
           ELSE <<>>
    [] OTHER -> <<>>

\* The switch on field.type: the type error, and for numbers the min/max errors.
TypeErrors(field, value) ==
  CASE field.type = "string" ->
         IF value.t # "string"
           THEN << "Field '" \o field.name \o "' must be a string" >> ELSE <<>>
    [] field.type = "number" ->
         IF value.t # "number"
           THEN << "Field '" \o field.name \o "' must be a number" >>
           ELSE (IF field.min # Undefined /\ value.n < field.min.n
                   THEN << "Field '" \o field.name \o "' must be at least "
                           \o ToString(field.min.n) >>
                   ELSE <<>>)
                \o
                (IF field.max # Undefined /\ value.n > field.max.n
                   THEN << "Field '" \o field.name \o "' must be at most "
                           \o ToString(field.max.n) >>
                   ELSE <<>>)
    [] field.type = "boolean" ->
         IF value.t # "boolean"
           THEN << "Field '" \o field.name \o "' must be a boolean" >> ELSE <<>>
    [] field.type = "array" ->
         IF value.t # "array"
           THEN << "Field '" \o field.name \o "' must be an array" >> ELSE <<>>
    [] OTHER -> <<>>

\* OptionErrors comparing the string form of the value whatever the field.
OptionErrorsScalar(field, value) ==
  IF Len(field.options) > 0 /\ ~Includes(field.options, StringOf(value))
    THEN << "Field '" \o field.name \o "' must be one of: " \o Join(field.options) >>
    ELSE <<>>

\* The options check of one field.
OptionErrors(field, value) ==
  IF Len(field.options) > 0
    THEN IF field.type = "array" /\ value.t = "array"
           THEN ArrayOptionErrors(field, value.items)
           ELSE IF ~Includes(field.options, StringOf(value))
                  THEN << "Field '" \o field.name \o "' must be one of: "
                          \o Join(field.options) >>
                  ELSE <<>>
    ELSE <<>>

\* One iteration of the loop over schemaDefinition.fields.
FieldErrors(field, details) ==
  LET value == PropGet(details, field.name)
      hasValue == value # Null /\ value # Undefined /\ value # Str("")
  IN  IF field.required /\ ~hasValue
        THEN << "Field '" \o field.name \o "' is required" >>
        ELSE IF ~hasValue
               THEN <<>>
               ELSE TypeErrors(field, value) \o OptionErrors(field, value)

\* AllFieldErrors leaving the loop at the first field with an error.
RECURSIVE AllFieldErrorsFirstFailure(_, _)
AllFieldErrorsFirstFailure(fields, details) ==
  IF fields = <<>> THEN <<>>
  ELSE IF FieldErrors(fields[1], details) # <<>> THEN FieldErrors(fields[1], details)
  ELSE AllFieldErrorsFirstFailure(Tail(fields), details)

\* The loop over schemaDefinition.fields.
RECURSIVE AllFieldErrors(_, _)
AllFieldErrors(fields, details) ==
  IF fields = <<>> THEN <<>>
  ELSE FieldErrors(fields[1], details) \o AllFieldErrors(Tail(fields), details)

\* validateReservationDetailsAdvanced with an error for every key of the
\* details that is no field of the schema.
validateReservationDetailsStrict(details, schemaDefinition) ==
  LET names == {schemaDefinition.fields[i].name : i \in 1..Len(schemaDefinition.fields)}
      unknown == SelectSeq(details, LAMBDA e : e[1] \notin names)
      errors == AllFieldErrors(schemaDefinition.fields, details)
                  \o [i \in 1..Len(unknown) |-> "Unknown field '" \o unknown[i][1] \o "'"]
  IN  [isValid |-> Len(errors) = 0, errors |-> errors]

\* FirestoreService.validateReservationDetailsAdvanced
validateReservationDetailsAdvanced(details, schemaDefinition) ==
  LET errors == AllFieldErrors(schemaDefinition.fields, details)
  IN  [isValid |-> Len(errors) = 0, errors |-> errors]

\* ------------------------------------------------------------- the store
\* Field schema of the "meeting" type: a required title and an optional
\* number of attendees between 1 and 20.
MeetingFields ==
  << [name |-> "title", type |-> "string", required |-> TRUE,
      options |-> <<>>, min |-> Undefined, max |-> Undefined],
     [name |-> "attendees", type |-> "number", required |-> FALSE,
      options |-> <<>>, min |-> Num(1), max |-> Num(20)] >>

\* Field schema with one optional field drawn from an enumeration.
ConsultFields ==
  << [name |-> "room", type |-> "string", required |-> FALSE,
      options |-> <<"A", "B">>, min |-> Undefined, max |-> Undefined] >>

\* TenantDocument.schemaConfig values: reservationTypes as entries.
SchemaConfigs ==
  [full |->
     [reservationTypes |->
        << <<"meeting", [fields |-> MeetingFields, requiresApproval |-> FALSE]>>,
           <<"consult", [fields |-> ConsultFields, requiresApproval |-> TRUE]>> >>],
   reduced |->
     [reservationTypes |->
        << <<"consult", [fields |-> ConsultFields, requiresApproval |-> TRUE]>> >>],
   approval |->
     [reservationTypes |->
        << <<"meeting", [fields |-> MeetingFields, requiresApproval |-> TRUE]>> >>]]

TenantIds == {"t1", "t2"}

CalendarIds == {"c1", "c2"}

\* The tenants collection after the tenants were set up.
InitialTenants ==
  [id \in TenantIds |->
     [name |-> id, status |-> "active",
      schemaConfig |-> IF id = "t1" THEN SchemaConfigs.full ELSE SchemaConfigs.approval]]

\* The calendars collection: c1 of tenant t1 with a default type and room for
\* two concurrent bookings, c2 of tenant t2 without default type.
InitialCalendars ==
  [id \in CalendarIds |->
     IF id = "c1"
       THEN [tenantId |-> "t1", reservationTypeKey |-> Str("consult"),
             isActive |-> TRUE, maxConcurrentBookings |-> 2]
       ELSE [tenantId |-> "t2", reservationTypeKey |-> Undefined,
             isActive |-> FALSE, maxConcurrentBookings |-> 1]]

\* ------------------------------------------------------------- requests
NoAuth == [uid |-> "", token |-> [tenantId |-> Undefined], present |-> FALSE]

Auth(uid, claim) == [uid |-> uid, token |-> [tenantId |-> claim], present |-> TRUE]

\* request.auth: absent, a caller with a tenantId claim, a caller without.
Auths == {NoAuth, Auth("u1", Str("t1")), Auth("u2", Undefined)}

Times == 0..MaxTime

\* A details map for the "meeting" type; room is no field of that type.
DetailsMeeting == Obj(<< <<"title", Str("Standup")>>, <<"room", Str("C")>> >>)

\* request.data that passes the basic input validation.
ShapedData ==
  {d \in [tenantId : {Str("t1"), Str("t2"), Str("tX")},
          calendarId : {Str("c1"), Str("c2"), Str("cX")},
          start : {Iso(n) : n \in Times},
          end : {Iso(n) : n \in Times},
          details : {Obj(<<>>), DetailsMeeting},
          reservationTypeKey : {Undefined, Str("meeting"), Str("unknown"),
                                Str("constructor")}] :
     d.start.n < d.end.n}

\* request.data with fields missing, unparseable or out of order.
MalformedData ==
  [tenantId : {Undefined, Str("t1"), Str("t2")},
   calendarId : {Undefined, Str("c1")},
   start : {Undefined, Str("soon"), Iso(0), Iso(MaxTime)},
   end : {Undefined, Str("later"), Iso(0), Iso(MaxTime)},
   details : {Undefined, DetailsMeeting},
   reservationTypeKey : {Undefined}]

\* Requests of verified callers for tenant t1 and its calendar c1 that pass
\* every validation: the "meeting" type, or the calendar's default type.
RaceRequests ==
  {r \in [auth : Auths \ {NoAuth}, data : ShapedData] :
     /\ r.data.tenantId = Str("t1")
     /\ r.data.calendarId = Str("c1")
     /\ \/ r.data.reservationTypeKey = Str("meeting") /\ r.data.details = DetailsMeeting
        \/ r.data.reservationTypeKey = Undefined /\ r.data.details = Obj(<<>>)}

\* The callers with a verified identity.
Callers == Auths \ {NoAuth}

\* The requests the callable is invoked with.
Requests == [auth : Callers, data : ShapedData] \cup [auth : Auths, data : MalformedData]

\* ------------------------------------------------------------------ state
VARIABLES
  tenants,        \* tenants collection: id -> TenantDocument
  calendars,      \* calendars collection: id -> CalendarDocument
  reservations,   \* reservations collection: a set of documents, each with its id
  invocations,    \* createReservation invocations started so far
  pc,             \* per invocation: "idle", "fetch", "conflicts", "create", "done"
  req,            \* per invocation: the request
  tenantSnap,     \* per invocation: result of getTenant
  calendarSnap,   \* per invocation: result of getCalendar
  result,         \* per invocation: what the caller receives
  storeReads,     \* per invocation: store reads served
  storeWrites,    \* per invocation: store writes committed
  queryView,      \* per invocation: ids of the documents stored when its conflict query was served
  admittedOver,   \* history: for each document written, the queryView of its invocation
  fault,          \* per invocation: the failure of one of its store operations, if any
  call            \* a service method or a client operation performed on its own: its arguments and outcome

vars == <<tenants, calendars, reservations, invocations,
          pc, req, tenantSnap, calendarSnap, result, storeReads, storeWrites,
          queryView, admittedOver, fault, call>>

history == <<queryView, admittedOver>>

\* What the steps of an admission that meets no store failure leave alone.
aside == <<fault, call>>

store == <<tenants, calendars, reservations>>

NoRequest == [auth |-> NoAuth, data |-> [none |-> TRUE]]

\* A read that was issued and is not yet served.
Pending == [st |-> "pending"]

\* doc.exists ? doc.data() : null
Snapshot(collection, id) ==
  IF id \in DOMAIN collection THEN [st |-> "doc", doc |-> collection[id]] ELSE [st |-> "null"]

NoResult == [kind |-> "none", message |-> "", reservationId |-> ""]

\* A stage that lets the request through.
Pass == [kind |-> "pass", message |-> "", reservationId |-> ""]

\* throw new HttpsError(kind, message)
HttpsError(kind, message) == [kind |-> kind, message |-> message, reservationId |-> ""]

\* return {success: true, reservationId}
Success(id) == [kind |-> "ok", message |-> "", reservationId |-> id]

\* No store operation of the invocation has failed.
NoFault == [kind |-> "none", message |-> "", reservationId |-> ""]

\* No service method is being called on its own.
NoCall == [method |-> "none"]

\* The errors that are no HttpsError: a TypeError of the handler's own code,
\* an error thrown by the store.
Exceptions == {"TypeError", "StoreError"}

\* The catch block passing the message of the error on to the caller.
CaughtLeaky(thrown) ==
  IF thrown.kind \in Exceptions
    THEN HttpsError("internal", thrown.message)
    ELSE thrown

\* The catch block: an HttpsError is re-thrown, anything else becomes internal.
Caught(thrown) ==
  IF thrown.kind \in Exceptions
    THEN HttpsError("internal", "An unexpected error occurred")
    ELSE thrown

\* The store as set up and no invocation of the callable under way.
Idle ==
  /\ tenants = InitialTenants
  /\ calendars = InitialCalendars
  /\ reservations = {}
  /\ invocations = 0
  /\ pc = [p \in Procs |-> "idle"]
  /\ req = [p \in Procs |-> NoRequest]
  /\ tenantSnap = [p \in Procs |-> Pending]
  /\ calendarSnap = [p \in Procs |-> Pending]
  /\ result = [p \in Procs |-> NoResult]
  /\ storeReads = [p \in Procs |-> 0]
  /\ storeWrites = [p \in Procs |-> 0]
  /\ queryView = [p \in Procs |-> {}]
  /\ admittedOver = {}
  /\ fault = [p \in Procs |-> NoFault]

Init == Idle /\ call = NoCall

\* ------------------------------------------------- createReservation stages
\* AuthStage without the comparison of the tenantId claim.
AuthStageNoClaims(r) ==
  IF ~r.auth.present
    THEN HttpsError("unauthenticated", "User must be authenticated")
    ELSE Pass

\* 1. Authentication and authorization.
AuthStage(r) ==
  IF ~r.auth.present
    THEN HttpsError("unauthenticated", "User must be authenticated")
    ELSE IF Truthy(r.auth.token.tenantId) /\ r.auth.token.tenantId # r.data.tenantId
           THEN HttpsError("permission-denied", "User does not have access to this tenant")
           ELSE Pass

\* 2. Basic input validation, and the parsing of the dates.
InputStage(r) ==
  LET data == r.data
      startDate == DateParse(data.start)
      endDate == DateParse(data.end)
  IN  IF ~Truthy(data.tenantId) \/ TypeOf(data.tenantId) # "string"
        THEN HttpsError("invalid-argument", "tenantId is required and must be a string")
      ELSE IF ~Truthy(data.calendarId) \/ TypeOf(data.calendarId) # "string"
        THEN HttpsError("invalid-argument", "calendarId is required and must be a string")
      ELSE IF ~Truthy(data.start) \/ TypeOf(data.start) # "string"
        THEN HttpsError("invalid-argument", "start is required and must be an ISO 8601 string")
      ELSE IF ~Truthy(data.end) \/ TypeOf(data.end) # "string"
        THEN HttpsError("invalid-argument", "end is required and must be an ISO 8601 string")
      ELSE IF ~Truthy(data.details) \/ TypeOf(data.details) # "object"
        THEN HttpsError("invalid-argument", "details is required and must be an object")
      ELSE IF startDate = NaN \/ endDate = NaN
        THEN HttpsError("invalid-argument", "Invalid date format. Use ISO 8601 format.")
      ELSE IF endDate <= startDate
        THEN HttpsError("invalid-argument", "End time must be after start time")
      ELSE Pass

\* BeforeFetch with the input validated before the caller is authenticated.
BeforeFetchInputFirst(r) ==
  IF InputStage(r) # Pass THEN InputStage(r) ELSE AuthStage(r)

\* The code from the entry of the handler to its first await.
BeforeFetch(r) ==
  IF AuthStage(r) # Pass THEN AuthStage(r) ELSE InputStage(r)

\* 4. const currentReservationTypeKey = data.reservationTypeKey || calendar.reservationTypeKey
currentReservationTypeKey(r, calendar) ==
  IF Truthy(r.data.reservationTypeKey)
    THEN r.data.reservationTypeKey
    ELSE calendar.reservationTypeKey

\* tenant.schemaConfig.reservationTypes[currentReservationTypeKey]
schemaDefinition(r, tenant, calendar) ==
  PropGet(tenant.schemaConfig.reservationTypes, currentReservationTypeKey(r, calendar).s)

\* 4 and 5, once tenant and calendar are resolved: the type key, its schema
\* and the validation of the details against it.
SchemaStage(r, tenant, calendar) ==
  IF ~Truthy(currentReservationTypeKey(r, calendar))
    THEN HttpsError("invalid-argument", "Reservation type key is missing")
  ELSE IF schemaDefinition(r, tenant, calendar) = Undefined
    THEN HttpsError("invalid-argument", "Invalid reservation type key")
  ELSE IF schemaDefinition(r, tenant, calendar) = Inherited
    \* for (const field of schemaDefinition.fields) with fields undefined
    THEN [kind |-> "TypeError", message |-> "undefined is not iterable", reservationId |-> ""]
  ELSE LET validationResult ==
             validateReservationDetailsAdvanced(EntriesOf(r.data.details),
                                                schemaDefinition(r, tenant, calendar))
       IN  IF ~validationResult.isValid
             THEN HttpsError("invalid-argument",
                             "Validation errors: " \o Join(validationResult.errors))
             ELSE Pass

\* AfterFetch without the validation of the details.
AfterFetchNoValidation(r, tenant, calendar) ==
  IF tenant.st = "null"
    THEN HttpsError("not-found", "Tenant not found")
  ELSE IF calendar.st = "null"
    THEN HttpsError("not-found", "Calendar not found")
  ELSE IF Str(calendar.doc.tenantId) # r.data.tenantId
    THEN HttpsError("permission-denied", "Calendar does not belong to the specified tenant")
  ELSE IF ~Truthy(currentReservationTypeKey(r, calendar.doc))
    THEN HttpsError("invalid-argument", "Reservation type key is missing")
  ELSE IF schemaDefinition(r, tenant.doc, calendar.doc) = Undefined
    THEN HttpsError("invalid-argument", "Invalid reservation type key")
  ELSE Pass

\* AfterFetch without the comparison of calendar.tenantId with data.tenantId.
AfterFetchNoOwnerCheck(r, tenant, calendar) ==
  IF tenant.st = "null"
    THEN HttpsError("not-found", "Tenant not found")
  ELSE IF calendar.st = "null"
    THEN HttpsError("not-found", "Calendar not found")
  ELSE Caught(SchemaStage(r, tenant.doc, calendar.doc))

\* 3 to 5: the code that runs once both reads of Promise.all are served.
AfterFetch(r, tenant, calendar) ==
  IF tenant.st = "null"
    THEN HttpsError("not-found", "Tenant not found")
  ELSE IF calendar.st = "null"
    THEN HttpsError("not-found", "Calendar not found")
  ELSE IF Str(calendar.doc.tenantId) # r.data.tenantId
    THEN HttpsError("permission-denied", "Calendar does not belong to the specified tenant")
  ELSE Caught(SchemaStage(r, tenant.doc, calendar.doc))

\* checkReservationConflicts counting confirmed reservations only.
checkReservationConflictsConfirmedOnly(tenantId, calendarId, startTime, endTime, excludeReservationId) ==
  {d \in reservations :
     /\ d.tenantId = tenantId
     /\ d.calendarId = calendarId
     /\ d.status = "confirmed"
     /\ d.start.ts < TimestampFromDate(endTime).ts
     /\ d.end.ts > TimestampFromDate(startTime).ts
     /\ (excludeReservationId # "" => d.id # excludeReservationId)}

\* checkReservationConflicts with the bounds of the interval included.
checkReservationConflictsClosed(tenantId, calendarId, startTime, endTime, excludeReservationId) ==
  {d \in reservations :
     /\ d.tenantId = tenantId
     /\ d.calendarId = calendarId
     /\ d.status # "cancelled"
     /\ d.start.ts <= TimestampFromDate(endTime).ts
     /\ d.end.ts >= TimestampFromDate(startTime).ts
     /\ (excludeReservationId # "" => d.id # excludeReservationId)}

\* checkReservationConflicts without the filter on excludeReservationId.
checkReservationConflictsNoExclude(tenantId, calendarId, startTime, endTime, excludeReservationId) ==
  {d \in reservations :
     /\ d.tenantId = tenantId
     /\ d.calendarId = calendarId
     /\ d.status # "cancelled"
     /\ d.start.ts < TimestampFromDate(endTime).ts
     /\ d.end.ts > TimestampFromDate(startTime).ts}

\* checkReservationConflicts returning the reservations that start within the
\* interval.
checkReservationConflictsStartsWithin(tenantId, calendarId, startTime, endTime, excludeReservationId) ==
  {d \in reservations :
     /\ d.tenantId = tenantId
     /\ d.calendarId = calendarId
     /\ d.status # "cancelled"
     /\ d.start.ts < TimestampFromDate(endTime).ts
     /\ d.start.ts >= TimestampFromDate(startTime).ts
     /\ (excludeReservationId # "" => d.id # excludeReservationId)}

\* FirestoreService.checkReservationConflicts: the documents the query returns.
checkReservationConflicts(tenantId, calendarId, startTime, endTime, excludeReservationId) ==
  {d \in reservations :
     /\ d.tenantId = tenantId
     /\ d.calendarId = calendarId
     /\ d.status # "cancelled"
     /\ d.start.ts < TimestampFromDate(endTime).ts
     /\ d.end.ts > TimestampFromDate(startTime).ts
     /\ (excludeReservationId # "" => d.id # excludeReservationId)}

\* ConflictStage with the query not awaited: the length of a promise is
\* undefined, and undefined > 0 is false.
ConflictStageNotAwaited(r) == Pass

\* 6. The conflict check of the handler.
ConflictStage(r) ==
  LET conflictingReservations ==
        checkReservationConflicts(r.data.tenantId.s, r.data.calendarId.s,
                                  DateParse(r.data.start), DateParse(r.data.end), "")
  IN  IF Cardinality(conflictingReservations) > 0
        THEN HttpsError("failed-precondition", "Time slot not available")
        ELSE Pass

\* reservationData with the status of the legacy createReservation.
reservationDataPending(r, tenant, calendar) ==
  [tenantId |-> r.data.tenantId.s,
   calendarId |-> r.data.calendarId.s,
   reservationTypeKey |-> currentReservationTypeKey(r, calendar).s,
   start |-> TimestampFromDate(DateParse(r.data.start)),
   end |-> TimestampFromDate(DateParse(r.data.end)),
   userId |-> r.auth.uid,
   details |-> r.data.details,
   status |-> "pending",
   approvedBy |-> Undefined,
   approvedAt |-> Undefined]

\* reservationData with the calendar's default type taking precedence.
reservationDataDefaultKey(r, tenant, calendar) ==
  [tenantId |-> r.data.tenantId.s,
   calendarId |-> r.data.calendarId.s,
   reservationTypeKey |-> IF Truthy(calendar.reservationTypeKey)
                            THEN calendar.reservationTypeKey.s
                            ELSE r.data.reservationTypeKey.s,
   start |-> TimestampFromDate(DateParse(r.data.start)),
   end |-> TimestampFromDate(DateParse(r.data.end)),
   userId |-> r.auth.uid,
   details |-> r.data.details,
   status |-> IF schemaDefinition(r, tenant, calendar).requiresApproval
                THEN "pending" ELSE "confirmed",
   approvedBy |-> Undefined,
   approvedAt |-> Undefined]

\* 7. const reservationData = {...}
reservationData(r, tenant, calendar) ==
  [tenantId |-> r.data.tenantId.s,
   calendarId |-> r.data.calendarId.s,
   reservationTypeKey |-> currentReservationTypeKey(r, calendar).s,
   start |-> TimestampFromDate(DateParse(r.data.start)),
   end |-> TimestampFromDate(DateParse(r.data.end)),
   userId |-> r.auth.uid,
   details |-> r.data.details,
   status |-> IF schemaDefinition(r, tenant, calendar).requiresApproval
                THEN "pending" ELSE "confirmed",
   approvedBy |-> Undefined,
   approvedAt |-> Undefined]

\* The auto-generated id of the next document of the collection.
NewId == "r" \o ToString(Cardinality(reservations) + 1)

\* FirestoreService.createReservationFull: the document added.
createReservationFull(data) ==
  [id |-> NewId] @@ data

\* ---------------------------------------------------------------- actions
\* Finish recording the outcome without ending the invocation.
FinishUnsettled(p, outcome) ==
  /\ result' = [result EXCEPT ![p] = outcome]
  /\ UNCHANGED pc

\* The invocation ends with the given outcome.
Finish(p, outcome) ==
  /\ pc' = [pc EXCEPT ![p] = "done"]
  /\ result' = [result EXCEPT ![p] = outcome]

\* The invocation goes on to await its next store operation.
Goto(p, label) ==
  /\ pc' = [pc EXCEPT ![p] = label]
  /\ UNCHANGED result

\* The callable is invoked with a request drawn from R: AuthStage and
\* InputStage run, and on success both reads of Promise.all are issued.
Invoke(p, R) ==
  /\ pc[p] = "idle"
  /\ invocations < MaxInvocations
  /\ \E r \in R :
       /\ req' = [req EXCEPT ![p] = r]
       /\ IF BeforeFetch(r) = Pass THEN Goto(p, "fetch") ELSE Finish(p, BeforeFetch(r))
  /\ invocations' = invocations + 1
  /\ UNCHANGED <<store, tenantSnap, calendarSnap, storeReads, storeWrites, history, aside>>

\* firestoreService.getTenant(data.tenantId) is served; when the calendar
\* read was served before, the handler resumes.
GetTenant(p) ==
  /\ pc[p] = "fetch"
  /\ tenantSnap[p] = Pending
  /\ LET tenant == Snapshot(tenants, req[p].data.tenantId.s)
     IN  /\ tenantSnap' = [tenantSnap EXCEPT ![p] = tenant]
         /\ IF calendarSnap[p] = Pending
              THEN UNCHANGED <<pc, result>>
              ELSE IF AfterFetch(req[p], tenant, calendarSnap[p]) = Pass
                     THEN Goto(p, "conflicts")
                     ELSE Finish(p, AfterFetch(req[p], tenant, calendarSnap[p]))
  /\ storeReads' = [storeReads EXCEPT ![p] = @ + 1]
  /\ UNCHANGED <<store, invocations, req, calendarSnap, storeWrites, history, aside>>

\* firestoreService.getCalendar(data.calendarId) is served; when the tenant
\* read was served before, the handler resumes.
GetCalendar(p) ==
  /\ pc[p] = "fetch"
  /\ calendarSnap[p] = Pending
  /\ LET calendar == Snapshot(calendars, req[p].data.calendarId.s)
     IN  /\ calendarSnap' = [calendarSnap EXCEPT ![p] = calendar]
         /\ IF tenantSnap[p] = Pending
              THEN UNCHANGED <<pc, result>>
              ELSE IF AfterFetch(req[p], tenantSnap[p], calendar) = Pass
                     THEN Goto(p, "conflicts")
                     ELSE Finish(p, AfterFetch(req[p], tenantSnap[p], calendar))
  /\ storeReads' = [storeReads EXCEPT ![p] = @ + 1]
  /\ UNCHANGED <<store, invocations, req, tenantSnap, storeWrites, history, aside>>

\* The conflict query is served and the handler resumes.
CheckConflicts(p) ==
  /\ pc[p] = "conflicts"
  /\ IF ConflictStage(req[p]) = Pass
       THEN Goto(p, "create")
       ELSE Finish(p, ConflictStage(req[p]))
  /\ storeReads' = [storeReads EXCEPT ![p] = @ + 1]
  /\ queryView' = [queryView EXCEPT ![p] = {d.id : d \in reservations}]
  /\ UNCHANGED <<store, invocations, req, tenantSnap, calendarSnap, storeWrites, admittedOver,
                 aside>>

\* CreateReservation writing with set() under an id made of the calendar: the
\* documents of that calendar are replaced.
CreateReservationSet(p) ==
  /\ pc[p] = "create"
  /\ LET doc == createReservationFull(
                  reservationData(req[p], tenantSnap[p].doc, calendarSnap[p].doc))
     IN  /\ reservations' = {d \in reservations : d.calendarId # doc.calendarId} \cup {doc}
         /\ admittedOver' = admittedOver \cup {[id |-> doc.id, view |-> queryView[p]]}
         /\ Finish(p, Success(doc.id))
  /\ storeWrites' = [storeWrites EXCEPT ![p] = @ + 1]
  /\ UNCHANGED <<tenants, calendars, invocations, req, tenantSnap,
                 calendarSnap, storeReads, queryView, aside>>

\* The reservation document is added and the handler returns success.
CreateReservation(p) ==
  /\ pc[p] = "create"
  /\ LET doc == createReservationFull(
                  reservationData(req[p], tenantSnap[p].doc, calendarSnap[p].doc))
     IN  /\ reservations' = reservations \cup {doc}
         /\ admittedOver' = admittedOver \cup {[id |-> doc.id, view |-> queryView[p]]}
         /\ Finish(p, Success(doc.id))
  /\ storeWrites' = [storeWrites EXCEPT ![p] = @ + 1]
  /\ UNCHANGED <<tenants, calendars, invocations, req, tenantSnap,
                 calendarSnap, storeReads, queryView, aside>>

\* The caller has its answer; the invocation's slot is free again.
Return(p) ==
  /\ pc[p] = "done"
  /\ pc' = [pc EXCEPT ![p] = "idle"]
  /\ req' = [req EXCEPT ![p] = NoRequest]
  /\ tenantSnap' = [tenantSnap EXCEPT ![p] = Pending]
  /\ calendarSnap' = [calendarSnap EXCEPT ![p] = Pending]
  /\ result' = [result EXCEPT ![p] = NoResult]
  /\ storeReads' = [storeReads EXCEPT ![p] = 0]
  /\ storeWrites' = [storeWrites EXCEPT ![p] = 0]
  /\ queryView' = [queryView EXCEPT ![p] = {}]
  /\ fault' = [fault EXCEPT ![p] = NoFault]
  /\ UNCHANGED <<store, invocations, admittedOver, call>>

\* The schema configurations an administrator gives tenant t1.
TenantUpdates == {[schemaConfig |-> SchemaConfigs.full], [schemaConfig |-> SchemaConfigs.reduced]}

\* FirestoreService.updateTenant(tenantId, updates)
UpdateTenant ==
  /\ \E updates \in TenantUpdates :
       /\ tenants["t1"].schemaConfig # updates.schemaConfig
       /\ tenants' = [tenants EXCEPT !["t1"].schemaConfig = updates.schemaConfig]
  /\ UNCHANGED <<calendars, reservations, invocations, pc, req, tenantSnap, calendarSnap,
                 result, storeReads, storeWrites, history, aside>>

\* ---------------------------------------------------------- specifications
\* The slot in which admissions run when they run one at a time.
Serial == "p1"

\* Admissions one at a time: each runs from its entry to its return before
\* the next one starts.
Next ==
  \/ Invoke(Serial, Requests)
  \/ GetTenant(Serial)
  \/ GetCalendar(Serial)
  \/ CheckConflicts(Serial)
  \/ CreateReservation(Serial)
  \/ Return(Serial)
  \/ UpdateTenant

Spec == Init /\ [][Next]_vars

\* Concurrent admissions: the store operations of the invocations interleave.
NextConcurrent ==
  \/ \E p \in Procs : Invoke(p, RaceRequests)
  \/ \E p \in Procs : GetTenant(p)
  \/ \E p \in Procs : GetCalendar(p)
  \/ \E p \in Procs : CheckConflicts(p)
  \/ \E p \in Procs : CreateReservation(p)
  \/ \E p \in Procs : Return(p)

SpecConcurrent == Init /\ [][NextConcurrent]_vars

\* ------------------------------------------------ vocabulary of the claims
\* Reservations that hold their slot.
Active(d) == d.status \in {"pending", "confirmed"}

\* The half-open intervals [start, end) of two documents share an instant.
SharesInstant(d1, d2) ==
  \E t \in Times : d1.start.ts <= t /\ t < d1.end.ts /\ d2.start.ts <= t /\ t < d2.end.ts

\* The document an invocation that returned success has written.
DocOf(p) == CHOOSE d \in reservations : d.id = result[p].reservationId

\* An invocation has returned success and its caller has not yet been answered.
Created(p) == pc[p] = "done" /\ result[p].kind = "ok"

\* An invocation has been rejected.
Rejected(p) == pc[p] = "done" /\ result[p].kind # "ok"

\* The ids stored when the conflict query of the writer of d was served.
ViewOf(d) == (CHOOSE h \in admittedOver : h.id = d.id).view

\* The own entry of a schema configuration under a key.
OwnType(schemaConfig, key) ==
  (CHOOSE i \in 1..Len(schemaConfig.reservationTypes) :
     schemaConfig.reservationTypes[i][1] = key)

\* ------------------------------------------------------------------- C1
\* C1: when admissions run one at a time (Spec), in every reachable state no
\* two reservations of a calendar with status pending or confirmed have
\* overlapping half-open intervals.
C1_NoOverlapSerial ==
  \A d1, d2 \in reservations :
    (d1.id # d2.id /\ d1.calendarId = d2.calendarId /\ Active(d1) /\ Active(d2))
      => ~SharesInstant(d1, d2)

\* Two admissions have put touching reservations on one calendar.
C1_Witness ==
  \E d1, d2 \in reservations :
    /\ d1.id # d2.id /\ d1.calendarId = d2.calendarId
    /\ Active(d1) /\ Active(d2)
    /\ d1.end = d2.start

\* ------------------------------------------------------------------- C2
\* C2: with concurrent admissions (SpecConcurrent) two overlapping non-cancelled
\* reservations of one tenant and calendar come from the race and from
\* nothing else: the conflict query of each of the two invocations was served
\* before the write of the other one committed; and that race is reachable
\* with both invocations returning success (C2_Witness).
C2_OverlapOnlyByRace ==
  \A d1, d2 \in reservations :
    (/\ d1.id # d2.id
     /\ d1.tenantId = d2.tenantId /\ d1.calendarId = d2.calendarId
     /\ d1.status # "cancelled" /\ d2.status # "cancelled"
     /\ SharesInstant(d1, d2))
      => (d1.id \notin ViewOf(d2) /\ d2.id \notin ViewOf(d1))

\* Both invocations have returned success and their documents overlap.
C2_Witness ==
  /\ \A p \in Procs : Created(p)
  /\ \E p, q \in Procs :
       /\ p # q
       /\ DocOf(p).id # DocOf(q).id
       /\ DocOf(p).tenantId = DocOf(q).tenantId
       /\ DocOf(p).calendarId = DocOf(q).calendarId
       /\ DocOf(p).status # "cancelled" /\ DocOf(q).status # "cancelled"
       /\ SharesInstant(DocOf(p), DocOf(q))
       /\ DocOf(p).id \notin queryView[q] /\ DocOf(q).id \notin queryView[p]

\* ------------------------------------------------------------------- C3
\* C3: an invocation that returns success has committed exactly one store
\* write, which adds one reservation document; a rejected invocation has
\* committed none; no step of an admission changes a tenant, a calendar or
\* an existing reservation.
C3_WritesOfAnAdmission ==
  [][/\ calendars' = calendars
     /\ (tenants' # tenants => pc' = pc)
     /\ reservations \subseteq reservations'
     /\ (reservations' # reservations =>
           \E p \in Procs :
             /\ pc[p] = "create" /\ Created(p)'
             /\ reservations' = reservations \cup {DocOf(p)'}
             /\ Cardinality(reservations') = Cardinality(reservations) + 1)
     /\ \A p \in Procs :
          /\ Created(p)' => storeWrites'[p] = 1
          /\ Rejected(p)' => (storeWrites'[p] = 0 /\ (pc[p] # "done" => reservations' = reservations))
    ]_vars

\* An admission has returned success over a store that held a reservation.
C3_Witness ==
  \E p \in Procs : Created(p) /\ storeWrites[p] = 1 /\ Cardinality(reservations) = 2

\* ------------------------------------------------------------------- C4
\* C4: a reservation just created has status pending if and only if the
\* schema of its type in the tenant record read by the admission has
\* requiresApproval, and confirmed otherwise; no reservation is created with
\* another status.
C4_InitialStatus ==
  /\ \A p \in Procs :
       Created(p) =>
         LET schema == tenantSnap[p].doc.schemaConfig.reservationTypes[
                         OwnType(tenantSnap[p].doc.schemaConfig, DocOf(p).reservationTypeKey)][2]
         IN  /\ DocOf(p).status = "pending" <=> schema.requiresApproval
             /\ DocOf(p).status = "confirmed" <=> ~schema.requiresApproval
  /\ \A d \in reservations : d.status \in {"pending", "confirmed"}

\* A reservation of a type that requires approval was created as pending.
C4_Witness ==
  \E p \in Procs : Created(p) /\ DocOf(p).status = "pending"

\* ------------------------------------------------------------------- C5
\* The request names an existing calendar that belongs to another tenant than
\* the one it names.
CrossTenant(r) ==
  /\ r.data.calendarId.t = "string"
  /\ r.data.calendarId.s \in DOMAIN calendars
  /\ Str(calendars[r.data.calendarId.s].tenantId) # r.data.tenantId

\* Every reservation carries the tenantId of its calendar.
TenantOfCalendar ==
  \A d \in reservations : calendars[d.calendarId].tenantId = d.tenantId

ClaimMismatch(r) ==
  /\ r.auth.present
  /\ r.auth.token.tenantId # Undefined
  /\ r.auth.token.tenantId # r.data.tenantId

C7_Unauthenticated ==
  \A p \in Procs :
    (pc[p] # "idle" /\ ~req[p].auth.present) =>
      /\ pc[p] = "done"
      /\ result[p] = HttpsError("unauthenticated", "User must be authenticated")
      /\ storeReads[p] = 0 /\ storeWrites[p] = 0
      /\ tenantSnap[p] = Pending /\ calendarSnap[p] = Pending

\* An unauthenticated request with an otherwise valid payload was rejected.
C7_Witness ==
  \E p \in Procs :
    /\ pc[p] = "done" /\ ~req[p].auth.present
    /\ InputStage(req[p]) = Pass
    /\ result[p].kind = "unauthenticated"

\* ------------------------------------------------------------------- C8
\* The stored reservations, other than the one the invocation wrote itself,
\* that are not cancelled, belong to the tenant and calendar of its request
\* and share an instant with the requested interval.
Clashing(p) ==
  {d \in reservations :
     /\ ~(Created(p) /\ d.id = result[p].reservationId)
     /\ d.tenantId = req[p].data.tenantId.s
     /\ d.calendarId = req[p].data.calendarId.s
     /\ d.status # "cancelled"
     /\ \E t \in Times :
          /\ d.start.ts <= t /\ t < d.end.ts
          /\ req[p].data.start.n <= t /\ t < req[p].data.end.n}

C9_TypeKeyResolution ==
  \A p \in Procs :
    (/\ pc[p] = "done" /\ storeReads[p] >= 2
     /\ tenantSnap[p].st = "doc" /\ calendarSnap[p].st = "doc"
     /\ Str(calendarSnap[p].doc.tenantId) = req[p].data.tenantId) =>
      LET supplied == req[p].data.reservationTypeKey
          resolved == IF supplied # Undefined
                        THEN supplied ELSE calendarSnap[p].doc.reservationTypeKey
      IN  /\ resolved = Undefined => result[p].kind = "invalid-argument"
          /\ (/\ resolved # Undefined
              /\ resolved.s \notin Keys(tenantSnap[p].doc.schemaConfig.reservationTypes))
               => result[p].kind = "invalid-argument"
          /\ Created(p) => DocOf(p).reservationTypeKey = resolved.s

\* ------------------------------------------------------------------ C10
\* C10: a reservation just written carries a type key of the tenant record
\* its admission read, its details are valid for the schema under that key,
\* and its tenantId, calendarId, start, end and details are those of the
\* request and its userId the uid of the caller.
C10_StoredAsAdmitted ==
  \A p \in Procs :
    Created(p) =>
      LET d == DocOf(p)
          config == tenantSnap[p].doc.schemaConfig
      IN  /\ d.reservationTypeKey \in Keys(config.reservationTypes)
          /\ validateReservationDetailsAdvanced(
               d.details.entries,
               config.reservationTypes[OwnType(config, d.reservationTypeKey)][2]).isValid
          /\ Str(d.tenantId) = req[p].data.tenantId
          /\ Str(d.calendarId) = req[p].data.calendarId
          /\ Iso(d.start.ts) = req[p].data.start
          /\ Iso(d.end.ts) = req[p].data.end
          /\ d.details = req[p].data.details
          /\ d.userId = req[p].auth.uid

\* A reservation was written under a type that the tenant has dropped since
\* the admission read the tenant record.
C10_Witness ==
  \E p \in Procs :
    /\ Created(p)
    /\ DocOf(p).reservationTypeKey
         \notin Keys(tenants[DocOf(p).tenantId].schemaConfig.reservationTypes)

\* ------------------------------------------------ the validator on its own
\* Definitions of a field "a": every type, required or not, with and without
\* options, numbers with and without min and max; and of a field named as a
\* property every plain object inherits.
FieldsA ==
  [name : {"a"}, type : {"string", "boolean", "array", "object"}, required : BOOLEAN,
   options : {<<>>, <<"A", "B">>}, min : {Undefined}, max : {Undefined}]
  \cup
  [name : {"a"}, type : {"number"}, required : BOOLEAN,
   options : {<<>>, <<"1", "3">>}, min : {Undefined, Num(1)}, max : {Undefined, Num(2)}]
  \cup
  [name : {"a"}, type : {"string", "array"}, required : {FALSE},
   options : {<<>>}, min : {Num(1)}, max : {Num(2)}]

FieldsInherited ==
  [name : {"constructor"}, type : {"string", "object"}, required : BOOLEAN,
   options : {<<>>}, min : {Undefined}, max : {Undefined}]

\* A required string field "b".
FieldB ==
  [name |-> "b", type |-> "string", required |-> TRUE,
   options |-> <<>>, min |-> Undefined, max |-> Undefined]

\* Schemas of one field, and of two.
Schemas ==
  {[fields |-> <<f>>, requiresApproval |-> FALSE] : f \in FieldsA}
  \cup {[fields |-> <<f, FieldB>>, requiresApproval |-> FALSE] : f \in FieldsA}
  \cup {[fields |-> <<f>>, requiresApproval |-> FALSE] : f \in FieldsInherited}

\* The values of entry "a"; Undefined stands for a map without that entry.
ValuesA ==
  {Undefined, Null, Str(""), Str("A"), Str("C"), Num(0), Num(1), Num(2), Num(3),
   Bool(FALSE), Bool(TRUE), Arr(<<>>), Arr(<<Str("A")>>), Arr(<<Str("A"), Str("C")>>),
   Obj(<<>>)}

\* Details maps over the entries "a" and "b".
DetailMaps ==
  {(IF a = Undefined THEN <<>> ELSE << <<"a", a>> >>)
     \o (IF b THEN << <<"b", Str("x")>> >> ELSE <<>>) : a \in ValuesA, b \in BOOLEAN}

\* The call has not returned yet.
NotReturned == [returned |-> FALSE]

\* validateReservationDetailsAdvanced is about to be called.
InitValidate ==
  /\ Idle
  /\ call \in [method : {"validateReservationDetailsAdvanced"},
               details : DetailMaps, schemaDefinition : Schemas,
               returned : {NotReturned}]

\* The call returns.
Validate ==
  /\ call.method = "validateReservationDetailsAdvanced"
  /\ call.returned = NotReturned
  /\ call' = [call EXCEPT !.returned =
                validateReservationDetailsAdvanced(call.details, call.schemaDefinition)]
  /\ UNCHANGED <<store, invocations, pc, req, tenantSnap, calendarSnap, result,
                 storeReads, storeWrites, history, fault>>

NextValidate == Validate

SpecValidate == InitValidate /\ [][NextValidate]_vars

\* ------------------------------------------------------------------ C11
\* The entry of a details map under a name, Undefined when it has none.
Given(details, name) ==
  IF \E i \in 1..Len(details) : details[i][1] = name
    THEN details[CHOOSE i \in 1..Len(details) : details[i][1] = name][2]
    ELSE Undefined

\* A value that is present and not empty.
HasValue(v) == v \notin {Undefined, Null, Str("")}

\* The value is of the type of the field.
WellTyped(f, v) == v.t = f.type

\* A number within the min and max of the field.
WithinRange(f, v) ==
  /\ f.min # Undefined => v.n >= f.min.n
  /\ f.max # Undefined => v.n <= f.max.n

\* The value, or every element of an array value of an array field, is one
\* of the options once rendered as a string.
Drawn(f, v) ==
  IF f.type = "array" /\ v.t = "array"
    THEN \A i \in 1..Len(v.items) :
           \E j \in 1..Len(f.options) : f.options[j] = StringOf(v.items[i])
    ELSE \E j \in 1..Len(f.options) : f.options[j] = StringOf(v)

\* A call of the validator has returned.
Validated ==
  call.method = "validateReservationDetailsAdvanced" /\ call.returned # NotReturned

\* C11 as stated: isValid is true if and only if every required field has a
\* present, non-empty, correctly typed value, every numeric field respects
\* its min and max, and every field with options has a value drawn from
\* them (for arrays, every element).
C11_Original ==
  Validated =>
    (call.returned.isValid <=>
       \A i \in 1..Len(call.schemaDefinition.fields) :
         LET f == call.schemaDefinition.fields[i]
             v == Given(call.details, f.name)
         IN  /\ f.required => (HasValue(v) /\ WellTyped(f, v))
             /\ (f.type = "number" /\ v.t = "number") => WithinRange(f, v)
             /\ (Len(f.options) > 0 /\ HasValue(v)) => Drawn(f, v))

\* --------------------------------------------- the conflict query on its own
\* ReservationDocument.status
Statuses == {"pending", "confirmed", "cancelled", "completed", "no-show"}

\* The intervals [start, end) with start before end.
Intervals == {iv \in Times \X Times : iv[1] < iv[2]}

\* A stored reservation document.
StoredReservation(id, tenantId, calendarId, status, iv) ==
  [id |-> id, tenantId |-> tenantId, calendarId |-> calendarId,
   reservationTypeKey |-> "meeting",
   start |-> TimestampFromDate(iv[1]), end |-> TimestampFromDate(iv[2]),
   userId |-> "u1", details |-> DetailsMeeting, status |-> status,
   approvedBy |-> Undefined, approvedAt |-> Undefined]

\* Contents of the reservations collection: r1 and r2 on calendar c1 of
\* tenant t1, r1 in any status, r2 confirmed or cancelled, each over any
\* interval, and r3 on calendar c2 of tenant t2 over the whole range.
StoredCollections ==
  {{StoredReservation("r1", "t1", "c1", s1, i1),
    StoredReservation("r2", "t1", "c1", s2, i2),
    StoredReservation("r3", "t2", "c2", "confirmed", <<0, MaxTime>>)} :
     s1 \in Statuses, i1 \in Intervals, s2 \in {"confirmed", "cancelled"}, i2 \in Intervals}

\* The store holds reservations and checkReservationConflicts is about to be
\* called.
InitConflicts ==
  /\ tenants = InitialTenants
  /\ calendars = InitialCalendars
  /\ reservations \in StoredCollections
  /\ invocations = 0
  /\ pc = [p \in Procs |-> "idle"]
  /\ req = [p \in Procs |-> NoRequest]
  /\ tenantSnap = [p \in Procs |-> Pending]
  /\ calendarSnap = [p \in Procs |-> Pending]
  /\ result = [p \in Procs |-> NoResult]
  /\ storeReads = [p \in Procs |-> 0]
  /\ storeWrites = [p \in Procs |-> 0]
  /\ queryView = [p \in Procs |-> {}]
  /\ admittedOver = {}
  /\ fault = [p \in Procs |-> NoFault]
  /\ call = NoCall

\* checkReservationConflicts is called and returns.
QueryConflicts ==
  /\ call.method \in {"none", "checkReservationConflicts"}
  /\ \E tenantId \in TenantIds, calendarId \in CalendarIds, iv \in Intervals,
        excludeReservationId \in {"", "r1", "r2"} :
       call' = [method |-> "checkReservationConflicts",
                tenantId |-> tenantId, calendarId |-> calendarId,
                startTime |-> iv[1], endTime |-> iv[2],
                excludeReservationId |-> excludeReservationId,
                returned |-> checkReservationConflicts(tenantId, calendarId, iv[1], iv[2],
                                                      excludeReservationId)]
  /\ UNCHANGED <<store, invocations, pc, req, tenantSnap, calendarSnap, result,
                 storeReads, storeWrites, history, fault>>

NextConflicts == QueryConflicts

SpecConflicts == InitConflicts /\ [][NextConflicts]_vars

\* A call of checkReservationConflicts has returned.
Queried == call.method = "checkReservationConflicts"

\* ------------------------------------------------------------------ C12
\* C12: checkReservationConflicts returns exactly the stored reservations of
\* the given tenant and calendar whose status is pending, confirmed,
\* completed or no-show, with start before the given end and end after the
\* given start, except the one whose id is excludeReservationId when one is
\* supplied.
C12_ConflictsReturned ==
  Queried =>
    call.returned =
      {d \in reservations :
         /\ d.tenantId = call.tenantId
         /\ d.calendarId = call.calendarId
         /\ d.status \in {"pending", "confirmed", "completed", "no-show"}
         /\ d.start.ts < call.endTime
         /\ d.end.ts > call.startTime}
      \ {d \in reservations :
           call.excludeReservationId # "" /\ d.id = call.excludeReservationId}

\* A query that excluded an overlapping confirmed reservation returned a
\* no-show one and left out the reservation of the other calendar.
C12_Witness ==
  /\ Queried
  /\ call.excludeReservationId = "r2"
  /\ \E d \in reservations :
       /\ d.id = "r2" /\ d.status = "confirmed"
       /\ d.start.ts < call.endTime /\ d.end.ts > call.startTime
  /\ \E d \in call.returned : d.status = "no-show"
  /\ Cardinality(call.returned) = 1

\* ------------------------------------------------------------------ C13
\* C13: the overlap test of the conflict query is symmetric: a non-cancelled
\* reservation d of the queried tenant and calendar is returned for the
\* interval of a stored reservation e exactly when e is returned for the
\* interval of d; and d is not returned when its end is at or before the
\* queried start or its start at or after the queried end.
C13_OverlapSymmetric ==
  Queried =>
    \A d \in reservations :
      (/\ d.tenantId = call.tenantId /\ d.calendarId = call.calendarId
       /\ d.status # "cancelled" /\ d.id # call.excludeReservationId) =>
        /\ (d.end.ts <= call.startTime \/ call.endTime <= d.start.ts)
             => d \notin call.returned
        /\ \A e \in reservations :
             (/\ e.id # d.id
              /\ e.tenantId = call.tenantId /\ e.calendarId = call.calendarId
              /\ e.status # "cancelled"
              /\ e.start.ts = call.startTime /\ e.end.ts = call.endTime) =>
               (d \in call.returned <=>
                  e \in checkReservationConflicts(d.tenantId, d.calendarId,
                                                  d.start.ts, d.end.ts, ""))

\* The query was made for the interval of a stored reservation, and another
\* one that ends where that interval starts was not returned.
C13_Witness ==
  /\ Queried
  /\ \E d, e \in reservations :
       /\ d.id # e.id
       /\ d.tenantId = call.tenantId /\ d.calendarId = call.calendarId
       /\ e.tenantId = call.tenantId /\ e.calendarId = call.calendarId
       /\ d.status # "cancelled" /\ e.status # "cancelled"
       /\ e.start.ts = call.startTime /\ e.end.ts = call.endTime
       /\ d.end.ts = call.startTime
       /\ d.id # call.excludeReservationId
       /\ d \notin call.returned

\* ------------------------------------------- the input of the callable
\* request.data as a client may send it: every field missing, empty, of
\* another type, or well formed.
InputData ==
  [tenantId : {Undefined, Str(""), Num(7), Str("t1")},
   calendarId : {Undefined, Str(""), Str("c1")},
   start : {Undefined, Num(0), Str("soon"), Iso(0), Iso(1)},
   end : {Undefined, Str("later"), Iso(0), Iso(1)},
   details : {Undefined, Null, Str("x"), Arr(<<Str("x")>>), Obj(<<>>)},
   reservationTypeKey : {Undefined}]

InputRequests == [auth : Callers, data : InputData]

\* Admissions one at a time over every shape of input.
NextInput ==
  \/ Invoke(Serial, InputRequests)
  \/ GetTenant(Serial)
  \/ GetCalendar(Serial)
  \/ CheckConflicts(Serial)
  \/ CreateReservation(Serial)
  \/ Return(Serial)

SpecInput == Init /\ [][NextInput]_vars

\* ------------------------------------------------------------------ C14
\* The caller is authenticated and its tenantId claim, if any, is the
\* tenantId of the request.
Authorized(r) ==
  /\ r.auth.present
  /\ r.auth.token.tenantId \in {Undefined, r.data.tenantId}

\* A non-empty string.
NonEmptyString(v) == v.t = "string" /\ v.s # ""

\* The first constraint on the input that the request violates, in the
\* order tenantId, calendarId, start, end, details, parseable dates, end
\* after start; "" when it violates none. A details map is a plain object.
FirstViolation(data) ==
  IF ~NonEmptyString(data.tenantId)
    THEN "tenantId is required and must be a string"
  ELSE IF ~NonEmptyString(data.calendarId)
    THEN "calendarId is required and must be a string"
  ELSE IF data.start.t # "string"
    THEN "start is required and must be an ISO 8601 string"
  ELSE IF data.end.t # "string"
    THEN "end is required and must be an ISO 8601 string"
  ELSE IF data.details.t # "object"
    THEN "details is required and must be an object"
  ELSE IF data.start.s # "iso" \/ data.end.s # "iso"
    THEN "Invalid date format. Use ISO 8601 format."
  ELSE IF data.end.n <= data.start.n
    THEN "End time must be after start time"
  ELSE ""

\* C14 as stated: a request of an authorized caller that lacks a non-empty
\* string tenantId, a non-empty string calendarId, a string start, a string
\* end or a details map, or whose dates do not parse, or whose end is not
\* after its start, is rejected as InvalidArgument for the first of these
\* constraints it violates, before any store access; any other request goes
\* on to the reads.
C14_InputRejected ==
  \A p \in Procs :
    (pc[p] # "idle" /\ Authorized(req[p])) =>
      IF FirstViolation(req[p].data) # ""
        THEN /\ pc[p] = "done"
             /\ result[p] = HttpsError("invalid-argument", FirstViolation(req[p].data))
             /\ storeReads[p] = 0 /\ storeWrites[p] = 0
        ELSE ~(pc[p] = "done" /\ storeReads[p] = 0)

\* ------------------------------------------------------------------ C15
\* The type key of the request, else the default of the calendar read.
ResolvedKey(p) ==
  IF req[p].data.reservationTypeKey \notin {Undefined, Str("")}
    THEN req[p].data.reservationTypeKey
    ELSE calendarSnap[p].doc.reservationTypeKey

\* The schema the tenant record read by the invocation holds under a key of
\* its reservationTypes.
SchemaRead(p, key) ==
  tenantSnap[p].doc.schemaConfig.reservationTypes[
    OwnType(tenantSnap[p].doc.schemaConfig, key)][2]

\* The outcome of the stages that follow the two reads, in their order:
\* tenant exists, calendar exists, calendar belongs to the tenant, type key,
\* schema validation, conflict.
KindAfterReads(p) ==
  IF tenantSnap[p].st = "null" THEN "not-found"
  ELSE IF calendarSnap[p].st = "null" THEN "not-found"
  ELSE IF Str(calendarSnap[p].doc.tenantId) # req[p].data.tenantId THEN "permission-denied"
  ELSE IF ResolvedKey(p) \in {Undefined, Str("")} THEN "invalid-argument"
  ELSE IF ResolvedKey(p).s \notin Keys(tenantSnap[p].doc.schemaConfig.reservationTypes)
    THEN "invalid-argument"
  ELSE IF ~validateReservationDetailsAdvanced(
             EntriesOf(req[p].data.details), SchemaRead(p, ResolvedKey(p).s)).isValid
    THEN "invalid-argument"
  ELSE IF Clashing(p) # {} THEN "failed-precondition"
  ELSE "ok"

\* C15 as stated: the kind an invocation returns is that of the first
\* failing stage in the order authentication, claims, input, tenant exists,
\* calendar exists, calendar belongs to tenant, type key, schema validation,
\* conflict, and no store access of a later stage is made: none when one of
\* the first three stages fails, the two reads when one of the next five
\* fails, the conflict query besides when the conflict stage fails, and the
\* write only when none fails.
C15_FirstFailingStage ==
  \A p \in Procs :
    pc[p] = "done" =>
      IF ~req[p].auth.present
        THEN result[p].kind = "unauthenticated" /\ storeReads[p] = 0 /\ storeWrites[p] = 0
      ELSE IF ~Authorized(req[p])
        THEN result[p].kind = "permission-denied" /\ storeReads[p] = 0 /\ storeWrites[p] = 0
      ELSE IF FirstViolation(req[p].data) # ""
        THEN result[p].kind = "invalid-argument" /\ storeReads[p] = 0 /\ storeWrites[p] = 0
      ELSE /\ result[p].kind = KindAfterReads(p)
           /\ storeReads[p] = (IF KindAfterReads(p) \in {"failed-precondition", "ok"}
                                 THEN 3 ELSE 2)
           /\ storeWrites[p] = (IF KindAfterReads(p) = "ok" THEN 1 ELSE 0)

\* ------------------------------------------------------------------ C16
\* C16: an invocation moves only forward: from its entry to the reads when
\* authentication, the claims comparison and the input validation have
\* passed; from the reads to the conflict query when tenant and calendar
\* are resolved, the calendar is the tenant's, the type key is resolved and
\* the details are valid; from the conflict query to the write when nothing
\* clashes; the write happens in that last position only; from every
\* position it may end rejected; and once it has ended it does nothing
\* until its answer is delivered.
C16_StagesInOrder ==
  [][\A p \in Procs :
       /\ (pc'[p] = "fetch" /\ pc[p] # "fetch") =>
            /\ pc[p] = "idle"
            /\ Authorized(req'[p]) /\ FirstViolation(req'[p].data) = ""
            /\ storeReads'[p] = 0
       /\ (pc'[p] = "conflicts" /\ pc[p] # "conflicts") =>
            /\ pc[p] = "fetch"
            /\ storeReads'[p] = 2
            /\ KindAfterReads(p)' \in {"failed-precondition", "ok"}
       /\ (pc'[p] = "create" /\ pc[p] # "create") =>
            /\ pc[p] = "conflicts"
            /\ storeReads'[p] = 3
            /\ Clashing(p) = {}
       /\ (pc'[p] = "done" /\ pc[p] # "done") =>
            /\ pc[p] # "idle" => req'[p] = req[p]
            /\ Created(p)' <=> pc[p] = "create"
       /\ (pc'[p] = "idle" /\ pc[p] # "idle") => pc[p] = "done"
       /\ reservations' # reservations =>
            \E q \in Procs : pc[q] = "create" /\ Created(q)'
       /\ (pc[p] = "done" /\ pc'[p] = "done") =>
            /\ result'[p] = result[p]
            /\ storeReads'[p] = storeReads[p] /\ storeWrites'[p] = storeWrites[p]
    ]_vars

\* An invocation that used the default type of its calendar has written its
\* reservation after three reads.
C16_Witness ==
  \E p \in Procs :
    /\ Created(p) /\ storeReads[p] = 3 /\ storeWrites[p] = 1
    /\ req[p].data.reservationTypeKey = Undefined

\* ------------------------------------------------------------------ C17
\* Invocation q carries the request of invocation p, which has written its
\* reservation and has not been answered, and the conflict query of q was
\* served after that write.
RetriedAfterWrite(p, q) ==
  /\ p # q
  /\ Created(p)
  /\ req[q] = req[p]
  /\ pc[q] = "done"
  /\ DocOf(p).id \in queryView[q]

\* Two documents of one booking: same tenant, calendar, interval and user,
\* neither cancelled.
Duplicates(d1, d2) ==
  /\ d1.id # d2.id
  /\ d1.tenantId = d2.tenantId /\ d1.calendarId = d2.calendarId
  /\ d1.start = d2.start /\ d1.end = d2.end
  /\ d1.userId = d2.userId
  /\ d1.status # "cancelled" /\ d2.status # "cancelled"

StoreError(operation) ==
  [kind |-> "StoreError", message |-> operation \o ": 14 UNAVAILABLE", reservationId |-> ""]

\* The store operations the invocation is awaiting.
Awaited(p) ==
  CASE pc[p] = "fetch" ->
         (IF tenantSnap[p] = Pending THEN {"getTenant"} ELSE {})
         \cup (IF calendarSnap[p] = Pending THEN {"getCalendar"} ELSE {})
    [] pc[p] = "conflicts" -> {"checkReservationConflicts"}
    [] pc[p] = "create" -> {"createReservationFull"}
    [] OTHER -> {}

\* An awaited store operation fails: its promise rejects, the await throws
\* and the catch block ends the invocation.
StoreFails(p) ==
  /\ \E operation \in Awaited(p) :
       /\ fault' = [fault EXCEPT ![p] = StoreError(operation)]
       /\ Finish(p, Caught(StoreError(operation)))
  /\ UNCHANGED <<store, invocations, req, tenantSnap, calendarSnap, storeReads,
                 storeWrites, history, call>>

\* Requests for the interval [0, 1), well formed or not.
FailureRequests ==
  {r \in Requests : r.data.start = Iso(0) /\ r.data.end \in {Undefined, Iso(1)}}

\* Admissions one at a time over a store whose operations may fail.
NextFailure ==
  \/ Invoke(Serial, FailureRequests)
  \/ GetTenant(Serial)
  \/ GetCalendar(Serial)
  \/ CheckConflicts(Serial)
  \/ CreateReservation(Serial)
  \/ Return(Serial)
  \/ StoreFails(Serial)

SpecFailure == Init /\ [][NextFailure]_vars

\* ------------------------------------------------------------------ C18
\* The kind of the first failing stage before the reads, "pass" when none
\* fails.
KindBeforeReads(p) ==
  IF ~req[p].auth.present THEN "unauthenticated"
  ELSE IF ~Authorized(req[p]) THEN "permission-denied"
  ELSE IF FirstViolation(req[p].data) # "" THEN "invalid-argument"
  ELSE "pass"

\* C18: an invocation one of whose store operations failed ends with the
\* internal kind and the fixed message, which is not the message of the
\* failure, and has written nothing (the store holds the documents its
\* conflict query found there); an invocation none of whose store
\* operations failed ends with the kind of its first failing stage, and
\* with internal only for an exception of the handler's own code.
C18_StoreFailure ==
  \A p \in Procs :
    pc[p] = "done" =>
      IF fault[p] # NoFault
        THEN /\ result[p] = HttpsError("internal", "An unexpected error occurred")
             /\ result[p].message # fault[p].message
             /\ storeWrites[p] = 0
             /\ storeReads[p] = 3 => {d.id : d \in reservations} = queryView[p]
        ELSE /\ result[p].kind \in
                  {"internal",
                   IF KindBeforeReads(p) # "pass" THEN KindBeforeReads(p) ELSE KindAfterReads(p)}
             /\ result[p].kind = "internal" =>
                  /\ KindBeforeReads(p) = "pass"
                  /\ req[p].data.reservationTypeKey.t = "string"
                  /\ req[p].data.reservationTypeKey.s \in ObjectPrototypeKeys

\* The write of an invocation has failed over a store that holds a
\* reservation.
C18_Witness ==
  \E p \in Procs :
    /\ pc[p] = "done"
    /\ fault[p] = StoreError("createReservationFull")
    /\ result[p].kind = "internal"
    /\ Cardinality(reservations) = 1

\* ------------------------------------------ other writers of reservations
\* Documents that writers other than the callable put into the collection.
MaxStored == 2

\* firestore.rules, match /reservations/{reservationId}: allow create.
AllowCreate(auth, resource) ==
  /\ auth.present
  /\ Str(resource.tenantId) = auth.token.tenantId
  /\ resource.userId = auth.uid

\* Documents a client sends to the reservations collection: any tenant, any
\* user, any interval, a type no tenant has.
ClientDocuments ==
  {[StoredReservation("", tenantId, "c1", "confirmed", iv)
      EXCEPT !.userId = userId, !.reservationTypeKey = "bogus"] :
     tenantId \in TenantIds, userId \in {"u1", "u2"}, iv \in Intervals}

\* A client creates a reservation document with the client SDK; the rules
\* decide.
ClientCreate ==
  /\ Cardinality(reservations) < MaxStored
  /\ \E auth \in Auths, resource \in ClientDocuments :
       /\ AllowCreate(auth, resource)
       /\ reservations' = reservations \cup
            {[resource EXCEPT !.id = "x" \o ToString(Cardinality(reservations) + 1)]}
  /\ UNCHANGED <<tenants, calendars, invocations, pc, req, tenantSnap, calendarSnap,
                 result, storeReads, storeWrites, history, aside>>

\* FirestoreService.createReservation: the document set.
createReservation(reservationId, data) ==
  [id |-> reservationId,
   tenantId |-> data.tenantId.s,
   calendarId |-> data.calendarId.s,
   reservationTypeKey |-> "",
   start |-> IF "t" \in DOMAIN data.start /\ TypeOf(data.start) = "string"
               THEN TimestampFromDate(DateParse(data.start)) ELSE data.start,
   end |-> IF "t" \in DOMAIN data.end /\ TypeOf(data.end) = "string"
             THEN TimestampFromDate(DateParse(data.end)) ELSE data.end,
   userId |-> "",
   details |-> data.details,
   status |-> "pending",
   approvedBy |-> Undefined,
   approvedAt |-> Undefined]

\* CreateReservationRequest values.
LegacyData ==
  [tenantId : {Str("t1")}, calendarId : {Str("c1")},
   start : {Iso(0), TimestampFromDate(0)}, end : {Iso(1), TimestampFromDate(MaxTime)},
   details : {Obj(<<>>)}]

\* Server code calls FirestoreService.createReservation.
LegacyCreate ==
  /\ Cardinality(reservations) < MaxStored
  /\ \E reservationId \in {"l1"}, data \in LegacyData :
       /\ createReservation(reservationId, data) \notin reservations
       /\ reservations' = {d \in reservations : d.id # reservationId}
                            \cup {createReservation(reservationId, data)}
  /\ UNCHANGED <<tenants, calendars, invocations, pc, req, tenantSnap, calendarSnap,
                 result, storeReads, storeWrites, history, aside>>

\* Admissions one at a time, clients writing under the rules, and the
\* service method.
NextDirect ==
  \/ Invoke(Serial, RaceRequests)
  \/ GetTenant(Serial)
  \/ GetCalendar(Serial)
  \/ CheckConflicts(Serial)
  \/ CreateReservation(Serial)
  \/ Return(Serial)
  \/ ClientCreate
  \/ LegacyCreate

SpecDirect == Init /\ [][NextDirect]_vars

\* ------------------------------------------------------------------ C19
\* C19 as stated: every document of the reservations collection was written
\* by an invocation of createReservation, after its conflict query, under a
\* type of its tenant; neither a client under the rules nor the service's
\* createReservation adds one.
C19_OnlyAdmissions ==
  \A d \in reservations :
    /\ \E h \in admittedOver : h.id = d.id
    /\ \E config \in {SchemaConfigs.full, SchemaConfigs.reduced, SchemaConfigs.approval} :
         d.reservationTypeKey \in Keys(config.reservationTypes)

\* ------------------------------------------------------------------ C20
\* C20 as stated: createReservation never creates a reservation on a
\* calendar whose isActive flag was false in the calendar document the
\* invocation read.
C20_InactiveCalendarRefused ==
  \A p \in Procs :
    Created(p) => calendarSnap[p].doc.isActive

\* ------------------------------ firestore.rules: calendars and reservations
RuleAuth(uid, claim, roles) ==
  [uid |-> uid, token |-> [tenantId |-> claim, roles |-> roles], present |-> TRUE]

\* request.auth of a client: not signed in, a user and an admin of tenant t1,
\* a user of tenant t2.
RuleAuths ==
  {[uid |-> "", token |-> [tenantId |-> Undefined, roles |-> {}], present |-> FALSE],
   RuleAuth("u1", Str("t1"), {"user"}),
   RuleAuth("a1", Str("t1"), {"admin"}),
   RuleAuth("u2", Str("t2"), {"user"})}

isAuthenticated(auth) == auth.present

\* request.resource.data.diff(resource.data).affectedKeys().hasOnly(fields)
onlyUpdating(fields, resource, requestResource) ==
  \A k \in DOMAIN resource \ fields : requestResource[k] = resource[k]

\* match /calendars/{calendarId}
CalendarsAllow(method, auth, resource, requestResource) ==
  CASE method = "read" ->
         isAuthenticated(auth) /\ Str(resource.tenantId) = auth.token.tenantId
    [] method = "create" ->
         /\ isAuthenticated(auth)
         /\ Str(requestResource.tenantId) = auth.token.tenantId
         /\ "admin" \in auth.token.roles
    [] method \in {"update", "delete"} ->
         /\ isAuthenticated(auth)
         /\ Str(resource.tenantId) = auth.token.tenantId
         /\ "admin" \in auth.token.roles

\* match /reservations/{reservationId}
ReservationsAllow(method, auth, resource, requestResource) ==
  CASE method = "read" ->
         isAuthenticated(auth) /\ Str(resource.tenantId) = auth.token.tenantId
    [] method = "create" -> AllowCreate(auth, requestResource)
    [] method = "update" ->
         /\ isAuthenticated(auth)
         /\ Str(resource.tenantId) = auth.token.tenantId
         /\ \/ /\ resource.userId = auth.uid
               /\ onlyUpdating({"details", "status"}, resource, requestResource)
               /\ requestResource.status \in {"pending", "cancelled"}
            \/ "admin" \in auth.token.roles
    [] method = "delete" ->
         /\ isAuthenticated(auth)
         /\ Str(resource.tenantId) = auth.token.tenantId
         /\ (resource.userId = auth.uid \/ "admin" \in auth.token.roles)

\* A client operation the rules permitted: who asked, the document before
\* (none for a create) and after (none for a delete).
Permitted(collection, method, auth, before, after) ==
  [method |-> method, collection |-> collection, auth |-> auth,
   before |-> before, after |-> after]

\* What no client operation touches.
admissions == <<tenants, invocations, pc, req, tenantSnap, calendarSnap, result,
                storeReads, storeWrites, history, fault>>

\* The calendar documents a client sends: any tenantId, active or not.
CalendarWrites(base) ==
  {[base EXCEPT !.tenantId = tenantId, !.isActive = isActive] :
     tenantId \in TenantIds, isActive \in BOOLEAN}

\* The calendar and reservation documents the clients address.
ClientCalendarIds == {"c1", "c3"}

ClientReservationIds == {"x1"}

CalendarRead ==
  /\ \E auth \in RuleAuths, id \in ClientCalendarIds \cap DOMAIN calendars :
       /\ CalendarsAllow("read", auth, calendars[id], calendars[id])
       /\ call' = Permitted("calendars", "read", auth, {calendars[id]}, {calendars[id]})
  /\ UNCHANGED <<calendars, reservations, admissions>>

CalendarCreate ==
  /\ \E auth \in RuleAuths, id \in ClientCalendarIds \ DOMAIN calendars,
        requestResource \in CalendarWrites(InitialCalendars["c1"]) :
       /\ CalendarsAllow("create", auth, requestResource, requestResource)
       /\ calendars' = [i \in DOMAIN calendars \cup {id} |->
                          IF i = id THEN requestResource ELSE calendars[i]]
       /\ call' = Permitted("calendars", "create", auth, {}, {requestResource})
  /\ UNCHANGED <<reservations, admissions>>

CalendarUpdate ==
  /\ \E auth \in RuleAuths, id \in ClientCalendarIds \cap DOMAIN calendars :
       \E requestResource \in CalendarWrites(calendars[id]) :
         /\ CalendarsAllow("update", auth, calendars[id], requestResource)
         /\ calendars' = [calendars EXCEPT ![id] = requestResource]
         /\ call' = Permitted("calendars", "update", auth, {calendars[id]}, {requestResource})
  /\ UNCHANGED <<reservations, admissions>>

CalendarDelete ==
  /\ \E auth \in RuleAuths, id \in ClientCalendarIds \cap DOMAIN calendars :
       /\ CalendarsAllow("delete", auth, calendars[id], calendars[id])
       /\ calendars' = [i \in DOMAIN calendars \ {id} |-> calendars[i]]
       /\ call' = Permitted("calendars", "delete", auth, {calendars[id]}, {})
  /\ UNCHANGED <<reservations, admissions>>

\* The reservation documents a client sends for a create: any tenantId, any
\* of the users.
ReservationCreates ==
  {[StoredReservation("", tenantId, "c1", "pending", <<0, 1>>) EXCEPT !.userId = userId] :
     tenantId \in TenantIds, userId \in {"u1", "a1", "u2"}}

\* The reservation documents a client sends for an update: any tenantId, one
\* of three statuses, the details kept or emptied.
ReservationWrites(base) ==
  {[base EXCEPT !.tenantId = tenantId, !.status = status, !.details = details] :
     tenantId \in TenantIds, status \in {"pending", "confirmed", "cancelled"},
     details \in {base.details, Obj(<<>>)}}

ReservationRead ==
  /\ \E auth \in RuleAuths, resource \in reservations :
       /\ ReservationsAllow("read", auth, resource, resource)
       /\ call' = Permitted("reservations", "read", auth, {resource}, {resource})
  /\ UNCHANGED <<calendars, reservations, admissions>>

ReservationCreate ==
  /\ \E auth \in RuleAuths, id \in ClientReservationIds \ {d.id : d \in reservations},
        data \in ReservationCreates :
       LET requestResource == [data EXCEPT !.id = id]
       IN  /\ ReservationsAllow("create", auth, requestResource, requestResource)
           /\ reservations' = reservations \cup {requestResource}
           /\ call' = Permitted("reservations", "create", auth, {}, {requestResource})
  /\ UNCHANGED <<calendars, admissions>>

ReservationUpdate ==
  /\ \E auth \in RuleAuths, resource \in reservations :
       \E requestResource \in ReservationWrites(resource) :
         /\ ReservationsAllow("update", auth, resource, requestResource)
         /\ reservations' = (reservations \ {resource}) \cup {requestResource}
         /\ call' = Permitted("reservations", "update", auth, {resource}, {requestResource})
  /\ UNCHANGED <<calendars, admissions>>

ReservationDelete ==
  /\ \E auth \in RuleAuths, resource \in reservations :
       /\ ReservationsAllow("delete", auth, resource, resource)
       /\ reservations' = reservations \ {resource}
       /\ call' = Permitted("reservations", "delete", auth, {resource}, {})
  /\ UNCHANGED <<calendars, admissions>>

\* Clients read and write the two collections under the rules.
NextRules ==
  \/ CalendarRead
  \/ CalendarCreate
  \/ CalendarUpdate
  \/ CalendarDelete
  \/ ReservationRead
  \/ ReservationCreate
  \/ ReservationUpdate
  \/ ReservationDelete

SpecRules == Init /\ [][NextRules]_vars

\* ------------------------------------------------------------------ C21
\* C21 as stated: whenever the rules permit a client operation on a calendar
\* or a reservation, the document has the tenantId of the client's token
\* before the operation and after it.
C21_TenantBoundary ==
  call.method \in {"read", "create", "update", "delete"} =>
    \A d \in call.before \cup call.after : Str(d.tenantId) = call.auth.token.tenantId

\* ------------------------------------------- the errors of the validator
\* The messages about a field.
RequiredError(f) == "Field '" \o f.name \o "' is required"

MustBe(f, type) ==
  "Field '" \o f.name \o "' must be "
    \o (IF type \in {"array", "object"} THEN "an " ELSE "a ") \o type

AtLeast(f, n) == "Field '" \o f.name \o "' must be at least " \o ToString(n)

AtMost(f, n) == "Field '" \o f.name \o "' must be at most " \o ToString(n)

OneOf(f) == "Field '" \o f.name \o "' must be one of: " \o Join(f.options)

InvalidOption(f, item) ==
  "Field '" \o f.name \o "' contains invalid option '" \o item
    \o "'. Allowed: " \o Join(f.options)

FieldTypes == {"string", "number", "boolean", "array", "object"}

\* The limits a schema sets and the strings an element renders to.
Limits == 0..3

Renderings == {"", "A", "C", "0", "1", "2", "3", "true", "false"}

RangeErrors(f) == {AtLeast(f, n) : n \in Limits} \cup {AtMost(f, n) : n \in Limits}

OptionsErrors(f) == {OneOf(f)} \cup {InvalidOption(f, item) : item \in Renderings}

\* The errors of a result that are about field f, in the order returned.
ErrorsAbout(errors, f) ==
  SelectSeq(errors,
            LAMBDA m : m \in {RequiredError(f)} \cup {MustBe(f, type) : type \in FieldTypes}
                               \cup RangeErrors(f) \cup OptionsErrors(f))

\* The fields of the schema the validator was called with, each with its
\* entry of the details map.
Checked ==
  {[f |-> call.schemaDefinition.fields[i],
    v |-> Given(call.details, call.schemaDefinition.fields[i].name)] :
     i \in 1..Len(call.schemaDefinition.fields)}

\* ------------------------------------------------------------------ C22
\* C22 as stated: a field has a value iff its entry in details is not null,
\* not undefined and not the empty string (0 and false are values); a
\* required field without a value yields exactly the error "is required"
\* and none else for that field, an optional field without a value yields
\* no error, and a field with a value never yields "is required".
C22_RequiredOrSkipped ==
  Validated =>
    \A c \in Checked :
      LET about == ErrorsAbout(call.returned.errors, c.f)
      IN  /\ (~HasValue(c.v) /\ c.f.required) => about = <<RequiredError(c.f)>>
          /\ (~HasValue(c.v) /\ ~c.f.required) => about = <<>>
          /\ HasValue(c.v) => \A i \in 1..Len(about) : about[i] # RequiredError(c.f)

\* ------------------------------------------------------------------ C23
\* C23 as stated: for a field with a value and a declared type among string,
\* number, boolean, array and object, the error "must be a <type>" is
\* emitted, once, exactly when the runtime type of the value is not the
\* declared type.
C23_TypeErrorIffMismatch ==
  Validated =>
    \A c \in Checked :
      HasValue(c.v) =>
        LET about == ErrorsAbout(call.returned.errors, c.f)
            emitted == {i \in 1..Len(about) : about[i] = MustBe(c.f, c.f.type)}
        IN  /\ ~WellTyped(c.f, c.v) => Cardinality(emitted) = 1
            /\ WellTyped(c.f, c.v) => emitted = {}
            /\ \A i \in 1..Len(about) :
                 about[i] \notin {MustBe(c.f, type) : type \in FieldTypes \ {c.f.type}}

\* ------------------------------------------------------------------ C24
\* C24: for a number field holding a number v, the "at least" error is
\* emitted iff min is defined and v < min, the "at most" error iff max is
\* defined and v > max, so neither for v equal to min or to max; a field of
\* another type, or a value that is no number, gets neither error.
C24_InclusiveBounds ==
  Validated =>
    \A c \in Checked :
      LET about == ErrorsAbout(call.returned.errors, c.f)
          emitted == {about[i] : i \in 1..Len(about)} \cap RangeErrors(c.f)
      IN  IF c.f.type = "number" /\ c.v.t = "number"
            THEN emitted =
                   (IF c.f.min # Undefined /\ c.v.n < c.f.min.n
                      THEN {AtLeast(c.f, c.f.min.n)} ELSE {})
                   \cup
                   (IF c.f.max # Undefined /\ c.v.n > c.f.max.n
                      THEN {AtMost(c.f, c.f.max.n)} ELSE {})
            ELSE emitted = {}

\* A number equal to the max of its field, and above its min, was found
\* valid.
C24_Witness ==
  /\ Validated
  /\ call.returned.isValid
  /\ \E c \in Checked :
       /\ c.f.type = "number"
       /\ c.f.min # Undefined
       /\ c.f.max # Undefined
       /\ c.v = c.f.max

DetailsOffered ==
  {Obj(<<>>),
   DetailsMeeting,
   Obj(<< <<"title", Num(7)>>, <<"attendees", Num(0)>> >>),
   Obj(<< <<"title", Str("Standup")>>, <<"attendees", Num(30)>>, <<"note", Str("x")>> >>),
   Obj(<< <<"attendees", Str("x")>> >>),
   Obj(<< <<"room", Str("A")>>, <<"extra", Num(1)>> >>)}

\* Requests of verified callers for tenant t1 and its calendar c1, under the
\* "meeting" type or the default type of the calendar.
DetailRequests ==
  [auth : Callers,
   data : [tenantId : {Str("t1")}, calendarId : {Str("c1")},
           start : {Iso(0)}, end : {Iso(1), Iso(MaxTime)},
           details : DetailsOffered,
           reservationTypeKey : {Undefined, Str("meeting")}]]

\* Admissions one at a time.
NextDetails ==
  \/ Invoke(Serial, DetailRequests)
  \/ GetTenant(Serial)
  \/ GetCalendar(Serial)
  \/ CheckConflicts(Serial)
  \/ CreateReservation(Serial)
  \/ Return(Serial)

SpecDetails == Init /\ [][NextDetails]_vars

\* Both reads of the invocation were served, so the stages up to the schema
\* validation have run.
Validating(p) == pc[p] # "idle" /\ storeReads[p] >= 2

\* The schema the invocation validates against, and the entries of its
\* details.
SchemaOf(p) == SchemaRead(p, ResolvedKey(p).s)

DetailsOf(p) == EntriesOf(req[p].data.details)

FieldNames(schema) == {schema.fields[i].name : i \in 1..Len(schema.fields)}

\* The rejection that carries a list of validation errors.
ValidationRejection(errors) ==
  HttpsError("invalid-argument", "Validation errors: " \o Join(errors))

\* ------------------------------------------------------------------ C26
\* C26: the outcome of the validation is that of the details map cut down to
\* the keys that are fields of the schema, so two maps that agree on those
\* keys get the same isValid and the same errors; a reservation that is
\* created holds the details as sent, keys of no field included.
C26_UnknownKeysIgnored ==
  \A p \in Procs :
    Validating(p) =>
      LET known == SelectSeq(DetailsOf(p), LAMBDA e : e[1] \in FieldNames(SchemaOf(p)))
          verdict == validateReservationDetailsAdvanced(known, SchemaOf(p))
      IN  /\ ~verdict.isValid => Rejected(p) /\ result[p] = ValidationRejection(verdict.errors)
          /\ verdict.isValid => result[p].kind # "invalid-argument"
          /\ Created(p) => DocOf(p).details = req[p].data.details

\* A reservation was created whose details hold a key that is no field of
\* its type.
C26_Witness ==
  \E p \in Procs :
    /\ Created(p)
    /\ Keys(DocOf(p).details.entries) \ FieldNames(SchemaOf(p)) # {}

\* ------------------------------------------------------------------ C27
\* The errors of each field of the schema validated alone, in the order of
\* the fields.
RECURSIVE EachFieldAlone(_, _)
EachFieldAlone(fields, details) ==
  IF fields = <<>> THEN <<>>
  ELSE validateReservationDetailsAdvanced(
         details, [fields |-> <<fields[1]>>, requiresApproval |-> FALSE]).errors
       \o EachFieldAlone(Tail(fields), details)

\* C27: the errors of a validation are those of every field of the schema,
\* failed earlier fields or not, in the order of the fields, and the details
\* are valid iff there is none; with errors the invocation is rejected with
\* one invalid-argument whose message lists them all joined by ", ", after
\* its two reads and without a write; without errors it is not rejected for
\* its details.
C27_AllErrorsReported ==
  \A p \in Procs :
    Validating(p) =>
      LET errors == EachFieldAlone(SchemaOf(p).fields, DetailsOf(p))
      IN  IF errors # <<>>
            THEN /\ Rejected(p)
                 /\ result[p] = ValidationRejection(errors)
                 /\ storeReads[p] = 2
                 /\ storeWrites[p] = 0
            ELSE result[p].kind # "invalid-argument"

\* An invocation was rejected with the errors of both fields of its type.
C27_Witness ==
  \E p \in Procs :
    /\ Rejected(p)
    /\ result[p].message =
         "Validation errors: Field 'title' must be a string, Field 'attendees' must be at least 1"
    /\ storeWrites[p] = 0

\* ------------------------------------------------ updateReservationStatus
\* FieldValue.serverTimestamp()
ServerTimestamp == [ts |-> "serverTimestamp"]

\* updateReservationStatus setting approvedBy and approvedAt when an
\* approvedBy is given, whatever the status.
updateReservationStatusAnyStatus(resource, status, approvedBy) ==
  IF Truthy(approvedBy)
    THEN [resource EXCEPT !.status = status,
                          !.approvedBy = approvedBy, !.approvedAt = ServerTimestamp]
    ELSE [resource EXCEPT !.status = status]

\* The document after doc(reservationId).update(updateData): the fields of
\* updateData replace those of the document.
updateReservationStatus(resource, status, approvedBy) ==
  IF status = "confirmed" /\ Truthy(approvedBy)
    THEN [resource EXCEPT !.status = status,
                          !.approvedBy = approvedBy, !.approvedAt = ServerTimestamp]
    ELSE [resource EXCEPT !.status = status]

\* The arguments of the calls: an id that is stored once the first admission
\* has written and one that never is, every status, approvedBy and notes
\* given or left out.
StatusCalls ==
  [method : {"updateReservationStatus"}, reservationId : {"r1", "r9"},
   status : Statuses, approvedBy : {Undefined, Str("a1")}, notes : {Undefined, Str("n")}]

\* updateReservationStatus is called between two admissions. update() fails
\* for an id that is not stored; with notes left out updateData holds an
\* undefined value, which the store either skips or refuses, as it is set
\* up.
UpdateReservationStatus ==
  /\ pc[Serial] = "idle"
  /\ \E c \in StatusCalls :
       /\ call' = c
       /\ \/ /\ \E resource \in reservations :
                  /\ resource.id = c.reservationId
                  /\ reservations' = (reservations \ {resource})
                       \cup {updateReservationStatus(resource, c.status, c.approvedBy)}
          \/ /\ (c.notes = Undefined \/ c.reservationId \notin {d.id : d \in reservations})
             /\ UNCHANGED reservations
  /\ UNCHANGED <<tenants, calendars, admissions>>

\* Requests of one caller for calendar c1 under the "meeting" type.
StatusRequests ==
  [auth : {Auth("u1", Str("t1"))},
   data : [tenantId : {Str("t1")}, calendarId : {Str("c1")},
           start : {Iso(0)}, end : {Iso(1), Iso(MaxTime)},
           details : {DetailsMeeting},
           reservationTypeKey : {Str("meeting")}]]

\* Admissions one at a time, and status updates between them.
NextStatus ==
  \/ Invoke(Serial, StatusRequests)
  \/ GetTenant(Serial)
  \/ GetCalendar(Serial)
  \/ CheckConflicts(Serial)
  \/ CreateReservation(Serial)
  \/ Return(Serial)
  \/ UpdateReservationStatus

SpecStatus == Init /\ [][NextStatus]_vars

\* The step is a call of updateReservationStatus.
StatusUpdated ==
  /\ call'.method = "updateReservationStatus"
  /\ pc' = pc
  /\ (call' # call \/ reservations' # reservations)

C29_NoOverlapUnderUpdates ==
  \A d1, d2 \in reservations :
    (/\ d1.id # d2.id
     /\ d1.calendarId = d2.calendarId
     /\ d1.status \in {"pending", "confirmed"}
     /\ d2.status \in {"pending", "confirmed"})
      => ~(d1.start.ts < d2.end.ts /\ d2.start.ts < d1.end.ts)

\* -------------------------------------------- store operations that return
\* The store operation the invocation awaits returns, with its result or
\* with a failure.
Served(p) ==
  \/ GetTenant(p)
  \/ GetCalendar(p)
  \/ CheckConflicts(p)
  \/ CreateReservation(p)
  \/ StoreFails(p)

\* Admissions one at a time over a store each of whose operations eventually
\* returns.
SpecReturning == Init /\ [][NextFailure]_vars /\ WF_vars(Served(Serial))

\* The kinds of a rejection.
ErrorKinds ==
  {"unauthenticated", "permission-denied", "invalid-argument", "not-found",
   "failed-precondition", "internal"}

\* ------------------------------------------------------------------ C30
\* C30: when every store operation eventually returns, an invocation that
\* awaits a store operation eventually ends, and an invocation that has
\* ended has either returned success with the id of a stored reservation
\* and no error, or one error of one kind and no reservation id.
C30_Terminates ==
  /\ [](\A p \in Procs :
          pc[p] = "done" =>
            IF result[p].kind = "ok"
              THEN /\ result[p].message = ""
                   /\ result[p].reservationId \in {d.id : d \in reservations}
              ELSE /\ result[p].kind \in ErrorKinds
                   /\ result[p].reservationId = "")
  /\ \A p \in Procs : (pc[p] \in {"fetch", "conflicts", "create"}) ~> (pc[p] = "done")

\* An invocation went through all its store operations without a failure
\* and returned the id of the reservation it wrote.
C30_Witness ==
  \E p \in Procs :
    /\ Created(p)
    /\ fault[p] = NoFault
    /\ storeReads[p] = 3 /\ storeWrites[p] = 1
    /\ result[p].reservationId \in {d.id : d \in reservations}

====
